---- MODULE Spec2Model ----
(***************************************************************************)
(* BeaverDet, beaverdet/tools.py: check_pint_quantity and                  *)
(* add_dataframe_row.                                                      *)
(*                                                                         *)
(* Python values are modelled as follows.                                  *)
(*  - A str is a sequence of tokens.  The brackets "[" and "]" are always  *)
(*    tokens of their own and no other token starts or ends with a         *)
(*    bracket, so str.strip('[]') acts on tokens exactly as on characters. *)
(*    A str magnitude is a sequence of one-character tokens.               *)
(*  - A number is an exact rational num/den with den > 0; nan, inf and     *)
(*    -inf are separate kinds of magnitude.                                *)
(*  - An object is a record carrying its class, so that attribute lookup   *)
(*    can fail as it does in Python.                                       *)
(***************************************************************************)
EXTENDS Integers, Sequences, FiniteSets, TLC

VARIABLES
    quantity,        \* the caller's object passed as `quantity`
    dimension_type,  \* the caller's value passed as `dimension_type`
    ep_args,         \* <<>> when ensure_positive is omitted, else <<b>>
    outcome,         \* what the last call did: returned a value or raised
    pc,              \* "ready": arguments chosen, "done": call finished
    dataframe,       \* the caller's pandas DataFrame
    calls            \* check_pint_quantity calls made so far in the process

vars == <<quantity, dimension_type, ep_args, outcome, pc, dataframe, calls>>

(***************************************************************************)
(* Bounds of the input space.                                              *)
(***************************************************************************)
\* numeric magnitudes are k * MagStep for k in -MaxK .. MaxK
MaxK == 3
MagStep == 200
\* the caller makes at most MaxCalls + 1 calls of check_pint_quantity
MaxCalls == 2
\* cells of a dataframe row are drawn from 0 .. MaxCell
MaxCell == 1
\* index labels of an initial dataframe are drawn from 0 .. MaxLabel
MaxLabel == 2
\* an initial dataframe has at most MaxInitRows rows
MaxInitRows == 2
\* add_dataframe_row is applied while the frame has fewer than MaxRows rows
MaxRows == 4

(***************************************************************************)
(* Python str helpers.                                                     *)
(***************************************************************************)
Brackets == {"[", "]"}

RECURSIVE lstrip(_, _)
lstrip(s, chars) ==
    IF s # <<>> /\ Head(s) \in chars THEN lstrip(Tail(s), chars) ELSE s

RECURSIVE rstrip(_, _)
rstrip(s, chars) ==
    IF s # <<>> /\ s[Len(s)] \in chars
    THEN rstrip(SubSeq(s, 1, Len(s) - 1), chars)
    ELSE s

\* str.strip(chars): drop leading and trailing characters that are in chars
strip(s, chars) == rstrip(lstrip(s, chars), chars)

(***************************************************************************)
(* pint: units, their dimensionality and their conversion to base units.   *)
(* base = (magnitude + off) * factor, all exact rationals.                 *)
(***************************************************************************)
Dim1(name) == <<"[", name, "]">>

DimLength == Dim1("length")
DimArea == Dim1("length") \o <<" ** ", "2">>
DimVolume == Dim1("length") \o <<" ** ", "3">>
DimTemperature == Dim1("temperature")
DimPressure ==
    Dim1("mass") \o <<" / ">> \o Dim1("length") \o <<" / ">> \o Dim1("time")
        \o <<" ** ", "2">>
DimVelocity == Dim1("length") \o <<" / ">> \o Dim1("time")
DimTime == Dim1("time")
DimNone == <<"dimensionless">>

UnitDef(dim, base, fnum, fden, onum, oden) ==
    [dim |-> dim, base |-> base, fnum |-> fnum, fden |-> fden,
     onum |-> onum, oden |-> oden]

UnitRegistry ==
    [u \in {"meter", "inch", "meter ** 2", "inch ** 2", "meter ** 3", "liter",
            "kelvin", "degC", "degF", "kilogram / meter / second ** 2", "psi",
            "meter / second", "second", "dimensionless"} |->
        CASE u = "meter" -> UnitDef(DimLength, "meter", 1, 1, 0, 1)
          [] u = "inch" -> UnitDef(DimLength, "meter", 254, 10000, 0, 1)
          [] u = "meter ** 2" -> UnitDef(DimArea, "meter ** 2", 1, 1, 0, 1)
          [] u = "inch ** 2" ->
                UnitDef(DimArea, "meter ** 2", 64516, 100000000, 0, 1)
          [] u = "meter ** 3" -> UnitDef(DimVolume, "meter ** 3", 1, 1, 0, 1)
          [] u = "liter" -> UnitDef(DimVolume, "meter ** 3", 1, 1000, 0, 1)
          [] u = "kelvin" -> UnitDef(DimTemperature, "kelvin", 1, 1, 0, 1)
          [] u = "degC" -> UnitDef(DimTemperature, "kelvin", 1, 1, 27315, 100)
          [] u = "degF" -> UnitDef(DimTemperature, "kelvin", 5, 9, 45967, 100)
          [] u = "kilogram / meter / second ** 2" ->
                UnitDef(DimPressure, "kilogram / meter / second ** 2",
                        1, 1, 0, 1)
          [] u = "psi" ->
                UnitDef(DimPressure, "kilogram / meter / second ** 2",
                        689476, 100, 0, 1)
          [] u = "meter / second" ->
                UnitDef(DimVelocity, "meter / second", 1, 1, 0, 1)
          [] u = "second" -> UnitDef(DimTime, "second", 1, 1, 0, 1)
          [] u = "dimensionless" ->
                UnitDef(DimNone, "dimensionless", 1, 1, 0, 1)]

UnitNames == DOMAIN UnitRegistry

\* obj.dimensionality.__str__()
dimensionality_str(units) == UnitRegistry[units].dim

(***************************************************************************)
(* Magnitudes.                                                             *)
(***************************************************************************)
Mag(kind, num, den, text) ==
    [kind |-> kind, num |-> num, den |-> den, text |-> text]

Number(n) == Mag("number", n, 1, <<>>)
NaN == Mag("nan", 0, 1, <<>>)
PosInf == Mag("inf", 0, 1, <<>>)
NegInf == Mag("-inf", 0, 1, <<>>)
Complex == Mag("complex", 0, 1, <<>>)
Text(t) == Mag("str", 0, 1, t)
NoMagnitude == Mag("absent", 0, 1, <<>>)

NumberMagnitudes == {Number(k * MagStep) : k \in -MaxK .. MaxK}
StrMagnitudes == {Text(<<"a", "s", "d", "f">>), Text(<<"3">>), Text(<<"-", "3">>)}
Magnitudes ==
    NumberMagnitudes \cup {NaN, PosInf, NegInf, Complex} \cup StrMagnitudes

Digits == {"0", "1", "2", "3", "4", "5", "6", "7", "8", "9"}

\* the str literals float() accepts, among those of StrMagnitudes: an
\* optional sign followed by one or more digits
IsFloatLiteral(t) ==
    LET body == IF t # <<>> /\ Head(t) \in {"+", "-"} THEN Tail(t) ELSE t
    IN  body # <<>> /\ \A i \in 1 .. Len(body) : body[i] \in Digits

\* float(x): "ok", or the exception it raises
float(m) ==
    CASE m.kind \in {"number", "nan", "inf", "-inf"} -> "ok"
      [] m.kind = "str" -> IF IsFloatLiteral(m.text) THEN "ok" ELSE "ValueError"
      [] OTHER -> "TypeError"

(***************************************************************************)
(* Objects passed as `quantity`.                                           *)
(***************************************************************************)
Obj(cls, magnitude, units) ==
    [cls |-> cls, magnitude |-> magnitude, units |-> units]

\* ureg.Quantity(magnitude, units)
Quantity(magnitude, units) == Obj("Quantity", magnitude, units)
\* a bare number such as 7
BareNumber == Obj("int", NoMagnitude, "dimensionless")
\* an object with a dimensionality attribute and no magnitude attribute
DimensionalityOnly == Obj("DimensionalityOnly", NoMagnitude, "meter")

Quantities ==
    {Quantity(m, u) : m \in Magnitudes, u \in UnitNames}
        \cup {BareNumber, DimensionalityOnly}

hasattr(o, name) ==
    CASE name = "dimensionality" -> o.cls \in {"Quantity", "DimensionalityOnly"}
      [] name = "magnitude" -> o.cls = "Quantity"
      [] OTHER -> FALSE

(***************************************************************************)
(* Values passed as `dimension_type`: a str, as the docstring asks.        *)
(***************************************************************************)
SupportedNames ==
    {"length", "area", "volume", "temperature", "pressure", "velocity"}

DimensionTypes == SupportedNames \cup {"walrus", "mass"}

\* the values the caller may give for ensure_positive: none, or one bool
EnsurePositiveArgs == {<<>>, <<TRUE>>, <<FALSE>>}

(***************************************************************************)
(* Outcomes of a call.                                                     *)
(***************************************************************************)
NoOutcome ==
    [status |-> "none", value |-> "", exc |-> "", msg |-> <<>>, line |-> 0]
Returned(value, line) ==
    [status |-> "returned", value |-> value, exc |-> "", msg |-> <<>>,
     line |-> line]
Raised(exc, msg, line) ==
    [status |-> "raised", value |-> "", exc |-> exc, msg |-> msg,
     line |-> line]

(***************************************************************************)
(* pint: Quantity.to_base_units().  It returns a new Quantity in the base  *)
(* units of the receiver and leaves the receiver as it was.  `self` is the *)
(* receiver after the call, `exc` the exception raised, if any: a str      *)
(* magnitude cannot be scaled (and could not be compared with 0 either, so *)
(* the TypeError leaves the same source line in both cases).               *)
(***************************************************************************)
base_magnitude(m, u) ==
    CASE m.kind = "number" ->
            Mag("number", (m.num * u.oden + u.onum * m.den) * u.fnum,
                m.den * u.oden * u.fden, <<>>)
      [] OTHER -> m

ito_base_units(q) ==
    LET u == UnitRegistry[q.units]
        converted == Quantity(base_magnitude(q.magnitude, u), u.base)
    IN  IF q.magnitude.kind \in {"number", "nan", "inf", "-inf"}
        THEN [exc |-> "", ret |-> converted, self |-> converted]
        ELSE [exc |-> "TypeError", ret |-> q, self |-> q]

to_base_units(q) ==
    LET u == UnitRegistry[q.units]
    IN  IF q.magnitude.kind \in {"number", "nan", "inf", "-inf"}
        THEN [exc |-> "",
              ret |-> Quantity(base_magnitude(q.magnitude, u), u.base),
              self |-> q]
        ELSE [exc |-> "TypeError", ret |-> q, self |-> q]

\* m > 0 and m <= 0 for a float m, as variants of the comparison below
gt_zero(m) ==
    CASE m.kind = "number" -> m.num > 0
      [] m.kind = "inf" -> TRUE
      [] OTHER -> FALSE

le_zero(m) ==
    CASE m.kind = "number" -> m.num <= 0
      [] m.kind = "-inf" -> TRUE
      [] OTHER -> FALSE

\* m < 0 for a float m: every comparison with nan is False
lt_zero(m) ==
    CASE m.kind = "number" -> m.num < 0
      [] m.kind = "-inf" -> TRUE
      [] OTHER -> FALSE

(***************************************************************************)
(* check_pint_quantity                                                     *)
(***************************************************************************)
ensure_positive_default_True == TRUE

\* the default of the parameter ensure_positive
ensure_positive_default == FALSE

\* a variant in which the table is filled by the first call only
units_filled_once ==
    IF calls = 0
    THEN [s \in SupportedNames |->
            CASE s = "length" -> dimensionality_str("meter")
              [] s = "area" -> dimensionality_str("meter ** 2")
              [] s = "volume" -> dimensionality_str("meter ** 3")
              [] s = "temperature" -> dimensionality_str("degC")
              [] s = "pressure" -> dimensionality_str("psi")
              [] s = "velocity" -> dimensionality_str("meter / second")]
    ELSE <<>>

\* the dict `units`, built from a fresh registry on every call
units ==
    [s \in SupportedNames |->
        CASE s = "length" -> dimensionality_str("meter")
          [] s = "area" -> dimensionality_str("meter ** 2")
          [] s = "volume" -> dimensionality_str("meter ** 3")
          [] s = "temperature" -> dimensionality_str("degC")
          [] s = "pressure" -> dimensionality_str("psi")
          [] s = "velocity" -> dimensionality_str("meter / second")]


\* the last check and the return: lines 77-84
check_dimensionality(q, d, self) ==
    LET actual_dimension_type == dimensionality_str(q.units)
    IN  IF units[d] # actual_dimension_type
        THEN [outcome |->
                Raised("ValueError",
                       strip(actual_dimension_type, Brackets)
                           \o <<" is not ">> \o strip(units[d], Brackets),
                       78),
              quantity |-> self]
        ELSE [outcome |-> Returned("True", 84), quantity |-> self]

\* the sign check: lines 73-75
check_sign(q, ensure_positive) ==
    IF ensure_positive
    THEN LET base == to_base_units(q)
         IN  IF base.exc # ""
             THEN [raised |-> TRUE, self |-> base.self,
                   outcome |-> Raised(base.exc, <<>>, 74)]
             ELSE IF lt_zero(base.ret.magnitude)
             THEN [raised |-> TRUE, self |-> base.self,
                   outcome |-> Raised("ValueError", <<"Input value < 0">>, 75)]
             ELSE [raised |-> FALSE, self |-> base.self, outcome |-> NoOutcome]
    ELSE [raised |-> FALSE, self |-> q, outcome |-> NoOutcome]

\* a variant that compares the dimensionality before it checks the sign
check_pint_quantity_dimension_first(q, d, ensure_positive) ==
    IF d \notin DOMAIN units
    THEN [outcome |->
            Raised("ValueError",
                   <<d>> \o <<" not a supported dimension type">>, 61),
          quantity |-> q]
    ELSE IF ~hasattr(q, "dimensionality")
    THEN [outcome |-> Raised("ValueError", <<"Non-pint quantity">>, 66),
          quantity |-> q]
    ELSE IF ~hasattr(q, "magnitude")
    THEN [outcome |-> Raised("AttributeError", <<>>, 69), quantity |-> q]
    ELSE IF float(q.magnitude) = "ValueError"
    THEN [outcome |-> Raised("ValueError", <<"Non-numeric pint quantity">>, 71),
          quantity |-> q]
    ELSE IF float(q.magnitude) # "ok"
    THEN [outcome |-> Raised(float(q.magnitude), <<>>, 69), quantity |-> q]
    ELSE LET dim == check_dimensionality(q, d, q)
             sign == check_sign(q, ensure_positive)
         IN  IF dim.outcome.status = "raised" THEN dim
             ELSE IF sign.raised
             THEN [outcome |-> sign.outcome, quantity |-> sign.self]
             ELSE [outcome |-> dim.outcome, quantity |-> sign.self]

\* check_pint_quantity(quantity, dimension_type, ensure_positive): what the
\* call does (outcome) and the caller's object after it (quantity)
check_pint_quantity(q, d, ensure_positive) ==
    IF d \notin DOMAIN units
    THEN \* lines 60-61
         [outcome |->
            Raised("ValueError",
                   <<d>> \o <<" not a supported dimension type">>, 61),
          quantity |-> q]
    ELSE IF ~hasattr(q, "dimensionality")
    THEN \* lines 63-66
         [outcome |-> Raised("ValueError", <<"Non-pint quantity">>, 66),
          quantity |-> q]
    ELSE IF ~hasattr(q, "magnitude")
    THEN \* line 69: only ValueError is caught there
         [outcome |-> Raised("AttributeError", <<>>, 69), quantity |-> q]
    ELSE IF float(q.magnitude) = "ValueError"
    THEN \* lines 70-71
         [outcome |-> Raised("ValueError", <<"Non-numeric pint quantity">>, 71),
          quantity |-> q]
    ELSE IF float(q.magnitude) # "ok"
    THEN [outcome |-> Raised(float(q.magnitude), <<>>, 69), quantity |-> q]
    ELSE LET sign == check_sign(q, ensure_positive)
         IN  IF sign.raised
             THEN [outcome |-> sign.outcome, quantity |-> sign.self]
             ELSE check_dimensionality(q, d, sign.self)

\* the value bound to the parameter ensure_positive
ensure_positive == IF ep_args = <<>> THEN ensure_positive_default ELSE ep_args[1]

(***************************************************************************)
(* pandas: a DataFrame is its index (a sequence of labels) and its rows,   *)
(* one per label; the columns are fixed.                                   *)
(***************************************************************************)
Columns == <<"a", "b">>
Rows == [1 .. Len(Columns) -> 0 .. MaxCell]
DataFrame(index, values) ==
    [index |-> index, values |-> values, columns |-> Columns]
EmptyFrame == DataFrame(<<>>, <<>>)

\* dataframe.loc[label] = row: every row carrying the label is set to row,
\* and when no row carries it a row with that label is appended
loc_setitem(df, label, row) ==
    IF \E i \in 1 .. Len(df.index) : df.index[i] = label
    THEN [df EXCEPT !.values =
                [i \in 1 .. Len(df.index) |->
                    IF df.index[i] = label THEN row ELSE df.values[i]]]
    ELSE [df EXCEPT !.index = Append(df.index, label),
                    !.values = Append(df.values, row)]

(***************************************************************************)
(* The caller and the calls.                                               *)
(***************************************************************************)
\* the caller holds arguments and has not called yet
Init ==
    /\ quantity \in Quantities
    /\ dimension_type \in DimensionTypes
    /\ ep_args \in EnsurePositiveArgs
    /\ outcome = NoOutcome
    /\ pc = "ready"
    /\ dataframe = EmptyFrame
    /\ calls = 0

\* tools.check_pint_quantity(quantity, dimension_type[, ensure_positive])
Call ==
    /\ pc = "ready"
    /\ LET r == check_pint_quantity(quantity, dimension_type, ensure_positive)
       IN  /\ outcome' = r.outcome
           /\ quantity' = r.quantity
    /\ pc' = "done"
    /\ calls' = calls + 1
    /\ UNCHANGED <<dimension_type, ep_args, dataframe>>

\* between two calls the caller rebinds one of its arguments
NewQuantity ==
    /\ pc = "done"
    /\ calls <= MaxCalls
    /\ \E q \in Quantities : quantity' = q
    /\ outcome' = NoOutcome
    /\ pc' = "ready"
    /\ UNCHANGED <<dimension_type, ep_args, dataframe, calls>>

NewDimensionType ==
    /\ pc = "done"
    /\ calls <= MaxCalls
    /\ \E d \in DimensionTypes : dimension_type' = d
    /\ outcome' = NoOutcome
    /\ pc' = "ready"
    /\ UNCHANGED <<quantity, ep_args, dataframe, calls>>

NewEnsurePositive ==
    /\ pc = "done"
    /\ calls <= MaxCalls
    /\ \E e \in EnsurePositiveArgs : ep_args' = e
    /\ outcome' = NoOutcome
    /\ pc' = "ready"
    /\ UNCHANGED <<quantity, dimension_type, dataframe, calls>>

Next == Call \/ NewQuantity \/ NewDimensionType \/ NewEnsurePositive

Spec == Init /\ [][Next]_vars

(***************************************************************************)
(* add_dataframe_row, on a frame of its own.                               *)
(***************************************************************************)
Labels == 0 .. MaxLabel

\* the caller holds a frame with any index labels
InitFrame ==
    /\ quantity = BareNumber
    /\ dimension_type = "length"
    /\ ep_args = <<>>
    /\ outcome = NoOutcome
    /\ pc = "frame"
    /\ calls = 0
    /\ \E n \in 0 .. MaxInitRows :
         \E index \in [1 .. n -> Labels], values \in [1 .. n -> Rows] :
            dataframe = DataFrame(index, values)

\* a variant that takes the label one past the number of rows
add_dataframe_row_label_from_one(row) ==
    /\ pc = "frame"
    /\ Len(dataframe.index) < MaxRows
    /\ dataframe' = loc_setitem(dataframe, Len(dataframe.index) + 1, row)
    /\ outcome' = Returned("None", 106)
    /\ UNCHANGED <<quantity, dimension_type, ep_args, pc, calls>>

\* add_dataframe_row(dataframe, row): dataframe.loc[len(dataframe.index)] = row
\* the frame is changed in place and nothing is returned
add_dataframe_row(row) ==
    /\ pc = "frame"
    /\ Len(dataframe.index) < MaxRows
    /\ dataframe' = loc_setitem(dataframe, Len(dataframe.index), row)
    /\ outcome' = Returned("None", 106)
    /\ UNCHANGED <<quantity, dimension_type, ep_args, pc, calls>>

AddRow == \E row \in Rows : add_dataframe_row(row)

NextFrame == AddRow

SpecFrame == InitFrame /\ [][NextFrame]_vars

\* the caller holds an empty frame with the default index and only appends
InitAppend ==
    /\ quantity = BareNumber
    /\ dimension_type = "length"
    /\ ep_args = <<>>
    /\ outcome = NoOutcome
    /\ pc = "frame"
    /\ dataframe = EmptyFrame
    /\ calls = 0

SpecAppend == InitAppend /\ [][NextFrame]_vars

(***************************************************************************)
(* Properties.  The defects of an input are stated here from the wording   *)
(* of the claims, not from the function above.                             *)
(***************************************************************************)
Done == pc = "done"
Accepted == Done /\ outcome = Returned("True", 84)
RaisedValueError(msg) ==
    outcome.status = "raised" /\ outcome.exc = "ValueError" /\ outcome.msg = msg

IsSupported(d) == d \in SupportedNames
IsPint(q) == q.cls = "Quantity"
\* an int or float magnitude, nan and the infinities included
IsNumeric(q) ==
    IsPint(q) /\ q.magnitude.kind \in {"number", "nan", "inf", "-inf"}
IsFinite(q) == IsPint(q) /\ q.magnitude.kind = "number"
CoercesToFloat(q) == IsPint(q) /\ float(q.magnitude) = "ok"
MagnitudeNegative(q) ==
    \/ q.magnitude.kind = "number" /\ q.magnitude.num < 0
    \/ q.magnitude.kind = "-inf"
MagnitudeNonNegative(q) ==
    \/ q.magnitude.kind = "number" /\ q.magnitude.num >= 0
    \/ q.magnitude.kind = "inf"
ExpectedDimension(d) ==
    CASE d = "length" -> DimLength
      [] d = "area" -> DimArea
      [] d = "volume" -> DimVolume
      [] d = "temperature" -> DimTemperature
      [] d = "pressure" -> DimPressure
      [] d = "velocity" -> DimVelocity
ActualDimension(q) == UnitRegistry[q.units].dim
DimensionDiffers(q, d) == ActualDimension(q) # ExpectedDimension(d)
\* below zero once expressed in base units: below absolute zero for the
\* offset units, below zero for every other unit
NegativeInBaseUnits(q) ==
    \/ q.magnitude.kind = "-inf"
    \/ /\ q.magnitude.kind = "number"
       /\ CASE q.units = "degC" ->
                    100 * q.magnitude.num < -27315 * q.magnitude.den
            [] q.units = "degF" ->
                    100 * q.magnitude.num < -45967 * q.magnitude.den
            [] OTHER -> q.magnitude.num < 0

UnsupportedMessage(d) == <<d, " not a supported dimension type">>
NonPintMessage == <<"Non-pint quantity">>
NonNumericMessage == <<"Non-numeric pint quantity">>
NegativeMessage == <<"Input value < 0">>
FullMismatchMessage(q, d) ==
    ActualDimension(q) \o <<" is not ">> \o ExpectedDimension(d)
IsMismatchMessage(msg) == \E i \in 1 .. Len(msg) : msg[i] = " is not "

\* C1: every call that raises raises a ValueError, and an input with one of
\* the four defects (unsupported dimension type, non-pint quantity,
\* magnitude that does not coerce to a float, other dimensionality) raises
\* the ValueError of a defect it has.
C1_RejectionComplete ==
    Done =>
        /\ outcome.status = "raised" => outcome.exc = "ValueError"
        /\ ~IsSupported(dimension_type)
            \/ ~IsPint(quantity)
            \/ ~CoercesToFloat(quantity)
            \/ DimensionDiffers(quantity, dimension_type)
           => /\ outcome.status = "raised"
              /\ outcome.exc = "ValueError"
              /\ \/ /\ ~IsSupported(dimension_type)
                    /\ outcome.msg = UnsupportedMessage(dimension_type)
                 \/ ~IsPint(quantity) /\ outcome.msg = NonPintMessage
                 \/ /\ IsPint(quantity)
                    /\ ~CoercesToFloat(quantity)
                    /\ outcome.msg = NonNumericMessage
                 \/ /\ IsPint(quantity)
                    /\ IsSupported(dimension_type)
                    /\ DimensionDiffers(quantity, dimension_type)
                    /\ IsMismatchMessage(outcome.msg)
                 \/ outcome.msg = NegativeMessage

\* C2 as stated: with ensure_positive=True a numeric quantity whose magnitude
\* is below zero in the units it was given in raises 'Input value < 0',
\* offset units included.
C2_NegativeGivenRaises ==
    Done /\ IsSupported(dimension_type) /\ ep_args = <<TRUE>>
        /\ IsNumeric(quantity) /\ MagnitudeNegative(quantity)
    => RaisedValueError(NegativeMessage)

\* C2 as amended: with ensure_positive=True a numeric quantity raises
\* 'Input value < 0' exactly when its magnitude is below zero in base units:
\* for degC and degF that is below absolute zero, for the other units it is
\* a magnitude below zero as given.
C2_NegativeBaseRaises ==
    Done /\ IsSupported(dimension_type) /\ ep_args = <<TRUE>>
        /\ IsNumeric(quantity)
    => (NegativeInBaseUnits(quantity) <=> RaisedValueError(NegativeMessage))

C2_Witness ==
    /\ Done /\ ep_args = <<TRUE>> /\ IsSupported(dimension_type)
    /\ quantity.units = "degC"
    /\ quantity.magnitude.kind = "number"
    /\ quantity.magnitude.num < 0
    /\ RaisedValueError(NegativeMessage)

C4_ZeroRejected ==
    Done /\ ep_args = <<TRUE>> /\ IsFinite(quantity)
    => /\ Accepted => quantity.magnitude.num > 0
       /\ quantity.magnitude.num = 0 /\ IsSupported(dimension_type)
            => outcome.status = "raised"

\* C5: when the dimensionality of a numeric quantity differs from the
\* requested one, the message is the full dimensionality string of the
\* quantity, ' is not ', and the full dimensionality string requested.
C5_MismatchMessageIntact ==
    Done /\ IsSupported(dimension_type) /\ IsNumeric(quantity)
        /\ ep_args # <<TRUE>>
        /\ DimensionDiffers(quantity, dimension_type)
    => RaisedValueError(FullMismatchMessage(quantity, dimension_type))

\* C6: ensure_positive defaults to False, and without it a numeric quantity
\* of the requested dimension is accepted whatever its sign, and
\* 'Input value < 0' is never raised.
C6_SignIgnoredByDefault ==
    Done /\ ep_args \in {<<>>, <<FALSE>>}
    => /\ ~RaisedValueError(NegativeMessage)
       /\ IsSupported(dimension_type) /\ IsNumeric(quantity)
            /\ ~DimensionDiffers(quantity, dimension_type)
          => outcome = Returned("True", 84)

C6_Witness ==
    /\ Accepted /\ ep_args = <<>>
    /\ IsFinite(quantity) /\ quantity.magnitude.num < 0

\* C7: every accepted quantity carries a unit of the requested dimension and
\* a numeric, finite magnitude.
C7_AcceptedIsFinite ==
    Accepted
    => /\ IsPint(quantity)
       /\ IsSupported(dimension_type)
       /\ ~DimensionDiffers(quantity, dimension_type)
       /\ IsFinite(quantity)

\* C8: a call leaves the caller's quantity (magnitude and units),
\* dimension_type and ensure_positive as they were, whether it returns or
\* raises.
C8_NoSideEffect ==
    [][pc = "ready" /\ pc' = "done"
        => /\ quantity' = quantity
           /\ dimension_type' = dimension_type
           /\ ep_args' = ep_args]_vars

C8_Witness ==
    /\ Accepted /\ ep_args = <<TRUE>>
    /\ quantity.units = "inch"
    /\ IsFinite(quantity) /\ quantity.magnitude.num > 0

\* C9: add_dataframe_row leaves the frame with one more row, the last of
\* which holds the values given, and every earlier row as it was.
C9_AddsOneRow ==
    [][\A row \in Rows :
        add_dataframe_row(row)
        => LET n == Len(dataframe.index)
           IN  /\ Len(dataframe'.index) = n + 1
               /\ Len(dataframe'.values) = n + 1
               /\ dataframe'.values[n + 1] = row
               /\ \A i \in 1 .. n :
                    /\ dataframe'.index[i] = dataframe.index[i]
                    /\ dataframe'.values[i] = dataframe.values[i]]_vars

\* C10: the checks run in the order (1) supported dimension_type, (2) pint
\* quantity, (3) numeric magnitude, (4) sign in base units when
\* ensure_positive, (5) dimensionality, and the error is that of the first
\* check that fails.
FailsCheck(k) ==
    CASE k = 1 -> ~IsSupported(dimension_type)
      [] k = 2 -> ~hasattr(quantity, "dimensionality")
      [] k = 3 -> ~CoercesToFloat(quantity)
      [] k = 4 -> ensure_positive
                    /\ (~IsNumeric(quantity) \/ NegativeInBaseUnits(quantity))
      [] k = 5 -> DimensionDiffers(quantity, dimension_type)

FirstFailing(k) == (\A j \in 1 .. (k - 1) : ~FailsCheck(j)) /\ FailsCheck(k)

C10_CheckOrder ==
    Done =>
        /\ FirstFailing(1)
            => RaisedValueError(UnsupportedMessage(dimension_type))
        /\ FirstFailing(2) => RaisedValueError(NonPintMessage)
        /\ FirstFailing(3)
            => outcome.status = "raised" /\ outcome.line \in {69, 71}
        /\ FirstFailing(3) /\ outcome.exc = "ValueError"
            => outcome.msg = NonNumericMessage
        /\ FirstFailing(4)
            => outcome.status = "raised" /\ outcome.line \in {74, 75}
        /\ FirstFailing(4) /\ IsNumeric(quantity)
            => RaisedValueError(NegativeMessage)
        /\ FirstFailing(5)
            => /\ outcome.status = "raised" /\ outcome.exc = "ValueError"
               /\ outcome.line = 78
               /\ IsMismatchMessage(outcome.msg)
        /\ ~(\E k \in 1 .. 5 : FirstFailing(k)) => outcome = Returned("True", 84)

C10_Witness ==
    /\ Done /\ ep_args = <<TRUE>>
    /\ IsSupported(dimension_type) /\ IsNumeric(quantity)
    /\ NegativeInBaseUnits(quantity)
    /\ DimensionDiffers(quantity, dimension_type)
    /\ RaisedValueError(NegativeMessage)

\* C11: from an empty frame with the default index, under add_dataframe_row
\* alone, the index labels are 0 .. k-1 before and after every call, each
\* call appends its row after the rows of the earlier calls and leaves those
\* and the columns as they were, and the call returns None.
DefaultIndex(k) == [i \in 1 .. k |-> i - 1]

C11_AppendsInCallOrder ==
    [][\A row \in Rows :
        add_dataframe_row(row)
        => LET k == Len(dataframe.values)
           IN  /\ dataframe.index = DefaultIndex(k)
               /\ dataframe'.index = DefaultIndex(k + 1)
               /\ dataframe'.values = Append(dataframe.values, row)
               /\ dataframe'.columns = dataframe.columns
               /\ outcome' = Returned("None", 106)]_vars

C11_Witness ==
    /\ pc = "frame"
    /\ dataframe.index = <<0, 1, 2>>
    /\ dataframe.values[1] # dataframe.values[2]
    /\ dataframe.values[2] # dataframe.values[3]
    /\ outcome = Returned("None", 106)

\* C12: no state is kept between calls.  After any sequence of earlier
\* calls the outcome of a call is the one its three arguments determine, the
\* same True or the same error message, and the supported dimension types
\* are the same six names in every call.
ShownDimension(dim) ==
    CASE dim = DimLength -> <<"length">>
      [] dim = DimArea -> <<"length", "]", " ** ", "2">>
      [] dim = DimVolume -> <<"length", "]", " ** ", "3">>
      [] dim = DimTemperature -> <<"temperature">>
      [] dim = DimPressure ->
            <<"mass", "]", " / ", "[", "length", "]", " / ", "[", "time", "]",
              " ** ", "2">>
      [] dim = DimVelocity -> <<"length", "]", " / ", "[", "time">>
      [] dim = DimTime -> <<"time">>
      [] dim = DimNone -> <<"dimensionless">>

OutcomeOfArguments(q, d, e) ==
    LET positive == e = <<TRUE>>
    IN  IF d \notin {"length", "area", "volume", "temperature", "pressure",
                     "velocity"}
        THEN Raised("ValueError", UnsupportedMessage(d), 61)
        ELSE IF q.cls = "int"
        THEN Raised("ValueError", NonPintMessage, 66)
        ELSE IF q.cls # "Quantity" \/ q.magnitude.kind = "complex"
        THEN Raised(IF q.cls # "Quantity" THEN "AttributeError"
                    ELSE "TypeError", <<>>, 69)
        ELSE IF q.magnitude.kind = "str" /\ ~IsFloatLiteral(q.magnitude.text)
        THEN Raised("ValueError", NonNumericMessage, 71)
        ELSE IF positive /\ q.magnitude.kind = "str"
        THEN Raised("TypeError", <<>>, 74)
        ELSE IF positive /\ NegativeInBaseUnits(q)
        THEN Raised("ValueError", NegativeMessage, 75)
        ELSE IF DimensionDiffers(q, d)
        THEN Raised("ValueError",
                    ShownDimension(ActualDimension(q)) \o <<" is not ">>
                        \o ShownDimension(ExpectedDimension(d)),
                    78)
        ELSE Returned("True", 84)

C12_OutcomeFromArgumentsOnly ==
    Done => outcome = OutcomeOfArguments(quantity, dimension_type, ep_args)

C12_Witness ==
    /\ Accepted
    /\ calls > 2
    /\ dimension_type = "velocity"
    /\ ep_args = <<TRUE>>

====
